---- MODULE Spec2Model ----
(***************************************************************************)
(* Aviator Chatbot UI: the shared AppContext reducer, the Login form, the  *)
(* Layout shell and the floating ChatPanel, as a state machine.            *)
(*                                                                         *)
(* Texts (message contents, the input box, backend responses) are          *)
(* sequences of one-character strings so that trim() and substring() are   *)
(* computed as the code computes them.  Message indices are 0-based as in  *)
(* the code; messages[i + 1] is the TLA+ element for JavaScript index i.   *)
(* A pending promise is a record in `requests`; the closure it captured    *)
(* (the `state` of the render in which the handler ran) is stored in the   *)
(* record, because after an await the handler still reads that stale       *)
(* snapshot while its dispatches are applied to the live reducer state.    *)
(***************************************************************************)
EXTENDS Integers, Sequences, FiniteSets, TLC

VARIABLES
    state,                \* AppState held by useReducer(appReducer, initialState)
    isChatOpen,           \* Layout: useState(false)
    inputValue,           \* ChatPanel: useState('')
    isStreaming,          \* ChatPanel: useState(false)
    isWaitingForResponse, \* ChatPanel: useState(false)
    showHistory,          \* ChatPanel: useState(false)
    isLoadingHistory,     \* ChatPanel: useState(false)
    gen,                  \* which mounted instance of Layout/ChatPanel is live
    requests,             \* promises not yet settled
    timers,               \* setInterval handles of the typing simulation
    lastOp,               \* the handler that ran last, when it returned early
    ops,                  \* how many bounded user operations have run
    probe,                \* history of the latest accepted send
    shadow,               \* the message list the reducer actions should yield
    currentPage,          \* AppContent: useState('dashboard')
    accepted,             \* the feedback submission the backend accepted last
    chatInputValue,       \* Chat: useState('')
    chatIsStreaming,      \* Chat: useState(false)
    chatTimers,           \* Chat: setInterval handles of the typing simulation
    documents,            \* DocumentManagement: the ids of useState([]) documents
    documentsToDelete,    \* DocumentManagement: useState(new Set())
    docCurrentPage,       \* DocumentManagement: useState(1) currentPage
    pagination,           \* DocumentManagement: total_pages of useState pagination
    storedDocuments,      \* the ids of the documents the backend holds
    uploadForm,           \* DocumentUpload: useState uploadForm
    modalUploadForm,      \* DocumentManagement: useState uploadForm of the modal
    position,             \* ChatPanel: useState position
    size,                 \* ChatPanel: useState size (x: width, y: height)
    isDragging,           \* ChatPanel: useState(false)
    dragOffset,           \* ChatPanel: useState dragOffset
    isResizing,           \* ChatPanel: useState(false)
    resizeDirection,      \* ChatPanel: useState('')
    listeners,            \* the mousemove/mouseup listeners registered on document
    viewport,             \* window.innerWidth and window.innerHeight
    buttonDown            \* whether the pointer button is held

vars == <<state, isChatOpen, inputValue, isStreaming, isWaitingForResponse,
          showHistory, isLoadingHistory, gen, requests, timers, lastOp, ops,
          probe, shadow, currentPage, accepted,
          chatInputValue, chatIsStreaming, chatTimers,
          documents, documentsToDelete, docCurrentPage, pagination, storedDocuments,
          uploadForm, modalUploadForm, position, size, isDragging, dragOffset,
          isResizing, resizeDirection, listeners, viewport, buttonDown>>

chatVars == <<chatInputValue, chatIsStreaming, chatTimers>>
docVars == <<documents, documentsToDelete, docCurrentPage, pagination, storedDocuments>>

\* Local state of the page components
uploadVars == <<uploadForm, modalUploadForm>>
geomVars == <<position, size, isDragging, dragOffset, isResizing, resizeDirection,
              listeners, viewport, buttonDown>>
pageVars == <<chatVars, docVars, uploadVars, geomVars>>
nonChatVars == <<docVars, uploadVars, geomVars>>
nonDocVars == <<chatVars, uploadVars, geomVars>>

panelVars == <<isChatOpen, inputValue, isStreaming, isWaitingForResponse,
               showHistory, isLoadingHistory>>

----------------------------------------------------------------------------
(* Bounds *)

\* Logins, panel openings, history selections, accepted sends and accepted
\* feedback submissions in one run, all together
MaxOps == 4

\* Sends in one run of the typing simulations
MaxChatOps == 2

\* Page changes, selections, deletions and refreshes in one run
MaxDocOps == 2

\* Gestures (drags, resizes) and window resizes in one run
MaxGestures == 3

\* Documents the backend holds at the start, with ids 1..NumDocuments
NumDocuments == 11

----------------------------------------------------------------------------
(* Values *)

Null == "null"
NewChat == "new_chat"
Undefined == "undefined"
None == "none"

NullUser == [username |-> Null, user_type |-> Null, isLoggedIn |-> FALSE]
Kamala == [username |-> "kamala", user_type |-> "Support", isLoggedIn |-> TRUE]
Tester == [username |-> "tester", user_type |-> "Tester", isLoggedIn |-> TRUE]
Client1 == [username |-> "client1", user_type |-> "Client", isLoggedIn |-> TRUE]
Users == {Kamala, Tester, Client1}

\* The user object of a login response: the backend does not set isLoggedIn
BackendUser(u) == [u EXCEPT !.isLoggedIn = FALSE]

ErrSend == "Failed to send message"
ErrFeedback == "Failed to submit feedback"
ErrInit == "Failed to initialize chat session"
ErrLoad == "Failed to load chat messages"
ErrLoadHistory == "Failed to load chat history"
ErrLogin == "Invalid username or password"
ErrLoginOther == "An error occurred during login. Please try again."
ErrCredentials == "Please enter both username and password"

Apology ==
    <<"S","o","r","r","y",","," ","I"," ","e","n","c","o","u","n","t","e","r",
      "e","d"," ","a","n"," ","e","r","r","o","r","."," ","P","l","e","a","s",
      "e"," ","t","r","y"," ","a","g","a","i","n",".">>

Hello == <<"H","e","l","l","o">>
Inputs == { <<" ">>, <<" ">> \o Hello \o <<" ">> }

HiThere == <<"H","i"," ","t","h","e","r","e">>
Responses == { <<>>, <<"H","i">>, HiThere \o <<"!","!","!","!","!","!">> }

BackendChatIds == {"abc123"}
StoredChatIds == {"A", "B"}
ChatIds == BackendChatIds \cup StoredChatIds

Message(role, content, feedback) ==
    [role |-> role, content |-> content, feedback |-> feedback]

StoredMessages(chatId) ==
    << Message("user", <<"q">>, None),
       Message("assistant", <<"r", chatId>>, None) >>

StoredHistory == << [id |-> "A"], [id |-> "B"] >>
HistoryLists == { <<>>, StoredHistory }

----------------------------------------------------------------------------
(* String functions *)

substring(s, from, to) ==
    LET n == Len(s)
        a == IF from > n THEN n ELSE from
        b == IF to > n THEN n ELSE to
    IN  SubSeq(s, a + 1, b)

IsWhite(c) == c = " "

RECURSIVE trimStart(_)
trimStart(s) ==
    IF s # <<>> /\ IsWhite(Head(s)) THEN trimStart(Tail(s)) ELSE s

RECURSIVE trimEnd(_)
trimEnd(s) ==
    IF s # <<>> /\ IsWhite(s[Len(s)]) THEN trimEnd(SubSeq(s, 1, Len(s) - 1)) ELSE s

trim(s) == trimEnd(trimStart(s))

----------------------------------------------------------------------------
(* AppContext *)

initialState ==
    [ user |-> NullUser,
      currentChatId |-> Null,
      messages |-> <<>>,
      chatHistory |-> <<>>,
      isLoading |-> FALSE,
      error |-> Null,
      needsHistoryRefresh |-> FALSE ]

\* The map callback comparing the 1-based position with the index
UpdateMessageMap_OffByOne(msgs, index, message) ==
    [ i \in 1..Len(msgs) |-> IF i = index THEN message ELSE msgs[i] ]

UpdateMessageMap(msgs, index, message) ==
    [ i \in 1..Len(msgs) |-> IF i - 1 = index THEN message ELSE msgs[i] ]

\* `feedback: action.payload.feedback || msg.feedback`: null never clears a tag
UpdateFeedbackMap_KeepsTag(msgs, index, feedback) ==
    [ i \in 1..Len(msgs) |->
        IF i - 1 = index
        THEN [msgs[i] EXCEPT !.feedback = IF feedback = None THEN @ ELSE feedback]
        ELSE msgs[i] ]

UpdateFeedbackMap(msgs, index, feedback) ==
    [ i \in 1..Len(msgs) |->
        IF i - 1 = index THEN [msgs[i] EXCEPT !.feedback = feedback] ELSE msgs[i] ]

appReducer(s, action) ==
    CASE action.type = "LOGIN" ->
           [s EXCEPT !.user = action.payload, !.error = Null]
      [] action.type = "LOGOUT" ->
           initialState
      [] action.type = "SET_LOADING" ->
           [s EXCEPT !.isLoading = action.payload]
      [] action.type = "SET_ERROR" ->
           [s EXCEPT !.error = action.payload, !.isLoading = FALSE]
      [] action.type = "SET_CURRENT_CHAT" ->
           [s EXCEPT !.currentChatId = action.payload]
      [] action.type = "SET_MESSAGES" ->
           [s EXCEPT !.messages = action.payload]
      [] action.type = "ADD_MESSAGE" ->
           [s EXCEPT !.messages = Append(s.messages, action.payload)]
      [] action.type = "UPDATE_MESSAGE" ->
           [s EXCEPT !.messages =
               UpdateMessageMap(s.messages, action.payload.index, action.payload.message)]
      [] action.type = "SET_CHAT_HISTORY" ->
           [s EXCEPT !.chatHistory = action.payload]
      [] action.type = "SET_NEEDS_HISTORY_REFRESH" ->
           [s EXCEPT !.needsHistoryRefresh = action.payload]
      [] action.type = "UPDATE_MESSAGE_FEEDBACK" ->
           [s EXCEPT !.messages =
               UpdateFeedbackMap(s.messages, action.payload.index, action.payload.feedback)]
      [] OTHER -> s

Act(type, payload) == [type |-> type, payload |-> payload]

RECURSIVE dispatchAll(_, _)
dispatchAll(s, actions) ==
    IF actions = <<>> THEN s
    ELSE dispatchAll(appReducer(s, Head(actions)), Tail(actions))

login(user) == Act("LOGIN", user)
logout == Act("LOGOUT", Null)
setLoading(b) == Act("SET_LOADING", b)
setError(e) == Act("SET_ERROR", e)
setCurrentChat(c) == Act("SET_CURRENT_CHAT", c)
setMessages(m) == Act("SET_MESSAGES", m)
addMessage(m) == Act("ADD_MESSAGE", m)
updateMessage(i, m) == Act("UPDATE_MESSAGE", [index |-> i, message |-> m])
setChatHistory(h) == Act("SET_CHAT_HISTORY", h)
setNeedsHistoryRefresh(b) == Act("SET_NEEDS_HISTORY_REFRESH", b)
updateMessageFeedback(i, f) ==
    Act("UPDATE_MESSAGE_FEEDBACK", [index |-> i, feedback |-> f])

----------------------------------------------------------------------------
(* History of the latest accepted send.  `alone` holds while nothing but   *)
(* that send's own continuation and timer has run since it was accepted;   *)
(* `intact` holds while the message list has not been replaced wholesale   *)
(* (SET_MESSAGES or LOGOUT) since then.                                    *)

NoProbe ==
    [ phase |-> "none", index |-> 0, gen |-> 0, pre |-> <<>>, text |-> <<>>,
      chatId |-> Null, returned |-> Null, response |-> <<>>,
      alone |-> FALSE, intact |-> FALSE ]

Own(r) == probe.phase \in {"waiting", "streaming"} /\ r.gen = probe.gen /\ r.index = probe.index
OwnTimer(t) == probe.phase = "streaming" /\ t.gen = probe.gen /\ t.messageIndex = probe.index

\* Another handler or continuation ran
Disturb(p) ==
    IF p.phase \in {"waiting", "streaming"} /\ p.intact
    THEN [p EXCEPT !.alone = FALSE]
    ELSE NoProbe

\* The message list was replaced wholesale
Replace(p) == NoProbe

\* No file chosen: `file: null`
NoFile == [type |-> "null", name |-> <<>>, size |-> 0]

\* window.innerWidth (x) and window.innerHeight (y) the browser window takes
Viewports == { [x |-> 1280, y |-> 800] }

\* No feedback submission has been accepted yet
NoAccepted == [ kind |-> "none" ]

\* The page components as they mount: the initial values of their useState
AuxInit ==
    /\ accepted = NoAccepted
    /\ chatInputValue = <<>>
    /\ chatIsStreaming = FALSE
    /\ chatTimers = {}
    /\ documents = {}
    /\ documentsToDelete = {}
    /\ docCurrentPage = 1
    /\ pagination = 1
    /\ storedDocuments = 1..NumDocuments
    /\ uploadForm = [file |-> NoFile]
    /\ modalUploadForm = [file |-> NoFile]
    /\ viewport \in Viewports
    /\ position = [x |-> viewport.x - 420, y |-> 50]
    /\ size = [x |-> 384, y |-> 500]
    /\ isDragging = FALSE
    /\ dragOffset = [x |-> 0, y |-> 0]
    /\ isResizing = FALSE
    /\ resizeDirection = ""
    /\ listeners = {}
    /\ buttonDown = FALSE

AuxReset ==
    /\ accepted' = NoAccepted
    /\ chatInputValue' = <<>>
    /\ chatIsStreaming' = FALSE
    /\ chatTimers' = {}
    /\ documents' = {}
    /\ documentsToDelete' = {}
    /\ docCurrentPage' = 1
    /\ pagination' = 1
    /\ storedDocuments' = storedDocuments
    /\ uploadForm' = [file |-> NoFile]
    /\ modalUploadForm' = [file |-> NoFile]
    /\ viewport' = viewport
    /\ position' = [x |-> viewport.x - 420, y |-> 50]
    /\ size' = [x |-> 384, y |-> 500]
    /\ isDragging' = FALSE
    /\ dragOffset' = [x |-> 0, y |-> 0]
    /\ isResizing' = FALSE
    /\ resizeDirection' = ""
    /\ listeners' = {}
    /\ buttonDown' = FALSE

----------------------------------------------------------------------------
(* Mounting: AppContent renders Login while no user is logged in, and      *)
(* Layout (with its ChatPanel) otherwise.                                  *)

Mounted(s) == s.user.isLoggedIn


Init ==
    /\ state = initialState
    /\ isChatOpen = FALSE
    /\ inputValue = <<>>
    /\ isStreaming = FALSE
    /\ isWaitingForResponse = FALSE
    /\ showHistory = FALSE
    /\ isLoadingHistory = FALSE
    /\ gen = 0
    /\ requests = {}
    /\ timers = {}
    /\ lastOp = "none"
    /\ ops = 0
    /\ probe = NoProbe
    /\ shadow = <<>>
    /\ currentPage = "dashboard"
    /\ AuxInit

----------------------------------------------------------------------------
(* Login form (components/Login.tsx) *)

Credentials == { [username |-> <<>>, password |-> <<>>],
                 [username |-> <<"k">>, password |-> <<"a">>] }

\* handleSubmit: the form is shown only while no user is logged in.
LoginHandleSubmit(credentials) ==
    /\ ~Mounted(state)
    /\ ~state.isLoading
    /\ IF credentials.username = <<>> \/ credentials.password = <<>>
       THEN /\ state' = appReducer(state, setError(ErrCredentials))
            /\ requests' = requests
            /\ lastOp' = "loginRejected"
            /\ probe' = Disturb(probe)
            /\ ops' = ops
       ELSE /\ ops < MaxOps
            /\ ops' = ops + 1
            /\ state' = dispatchAll(state, << setLoading(TRUE), setError(Null) >>)
            /\ requests' = requests \cup { [kind |-> "login", attempt |-> ops] }
            /\ lastOp' = "none"
            /\ probe' = Disturb(probe)
    /\ UNCHANGED <<panelVars, gen, timers, shadow, currentPage, accepted, pageVars>>

\* What authApi.login settles with: a response body {success, message, user?}
\* or a rejection carrying the HTTP status and the `detail` of the error body
\* (status 0: no response at all)
LoginResponse(success, message, user) ==
    [settled |-> "resolved", success |-> success, message |-> message, user |-> user]

LoginRejection(status, detail) ==
    [settled |-> "rejected", status |-> status, detail |-> detail]

LoginOutcomes(user) ==
    { LoginResponse(TRUE, "Login successful", BackendUser(user)),
      LoginResponse(TRUE, "", NullUser),
      LoginResponse(FALSE, "Account is disabled", NullUser),
      LoginResponse(FALSE, "", NullUser),
      LoginRejection(401, "Incorrect username or password"),
      LoginRejection(500, "Internal Server Error"),
      LoginRejection(0, "") }

\* The outcomes for every user the backend knows
AllLoginOutcomes == UNION { LoginOutcomes(u) : u \in Users }

\* `response.success && response.user`
LoginSucceeds(outcome) ==
    outcome.settled = "resolved" /\ outcome.success /\ outcome.user # NullUser

\* The argument of setError in the else branch and in the catch
LoginErrorMessage(outcome) ==
    IF outcome.settled = "resolved"
    THEN IF outcome.message # "" THEN outcome.message ELSE ErrLogin
    ELSE IF outcome.status = 401 THEN ErrLogin
    ELSE IF outcome.detail # "" THEN outcome.detail
    ELSE ErrLoginOther

\* handleSubmit after the await when the response has success and a user:
\* login({...response.user, isLoggedIn: true}), then the finally block
LoginResolveOk(r, outcome) ==
    /\ r \in requests /\ r.kind = "login"
    /\ LoginSucceeds(outcome)
    /\ requests' = requests \ {r}
    /\ state' = dispatchAll(state,
         << login([outcome.user EXCEPT !.isLoggedIn = TRUE]), setLoading(FALSE) >>)
    /\ gen' = IF Mounted(state) THEN gen ELSE gen + 1
    /\ lastOp' = "none"
    /\ probe' = Disturb(probe)
    /\ UNCHANGED <<panelVars, timers, ops, shadow, currentPage, accepted, pageVars>>

\* handleSubmit after the await in every other case (else branch or catch),
\* then the finally block
LoginResolveFail(r, outcome) ==
    /\ r \in requests /\ r.kind = "login"
    /\ ~LoginSucceeds(outcome)
    /\ requests' = requests \ {r}
    /\ state' = dispatchAll(state,
         << setError(LoginErrorMessage(outcome)), setLoading(FALSE) >>)
    /\ lastOp' = "none"
    /\ probe' = Disturb(probe)
    /\ UNCHANGED <<panelVars, gen, timers, ops, shadow, currentPage, accepted, pageVars>>

----------------------------------------------------------------------------
(* Layout (components/Layout.tsx) *)

\* A fresh Layout/ChatPanel instance starts from its useState initial values;
\* an unmounted one has no state, which is represented by the same values.
PanelInitial ==
    /\ isChatOpen' = FALSE
    /\ inputValue' = <<>>
    /\ isStreaming' = FALSE
    /\ isWaitingForResponse' = FALSE
    /\ showHistory' = FALSE
    /\ isLoadingHistory' = FALSE

\* handleLogout up to its await of authApi.logout()
HandleLogout ==
    /\ Mounted(state)
    /\ requests' = requests \cup { [kind |-> "logout"] }
    /\ lastOp' = "none"
    /\ probe' = Disturb(probe)
    /\ UNCHANGED <<state, panelVars, gen, timers, ops, shadow, currentPage, accepted, pageVars>>

\* handleLogout after the await: logout() dispatches LOGOUT, Layout unmounts
LogoutResolve(r) ==
    /\ r \in requests /\ r.kind = "logout"
    /\ requests' = requests \ {r}
    /\ state' = appReducer(state, logout)
    /\ PanelInitial
    /\ lastOp' = "none"
    /\ probe' = Replace(probe)
    /\ UNCHANGED <<gen, timers, ops, shadow, currentPage, accepted, pageVars>>

\* handleDismissError
HandleDismissError ==
    /\ Mounted(state)
    /\ state.error # Null
    /\ state' = appReducer(state, setError(Null))
    /\ lastOp' = "none"
    /\ probe' = Disturb(probe)
    /\ UNCHANGED <<panelVars, gen, requests, timers, ops, shadow, currentPage, accepted, pageVars>>

\* handleChatClick, and the ChatPanel effect on [isOpen, state.user] that
\* calls initializeChatSession up to its await of historyApi.getUserHistory
HandleChatClick ==
    /\ Mounted(state)
    /\ ~isChatOpen
    /\ ops < MaxOps
    /\ ops' = ops + 1
    /\ isChatOpen' = TRUE
    /\ requests' = requests \cup { [kind |-> "boot", username |-> state.user.username] }
    /\ lastOp' = "none"
    /\ probe' = Disturb(probe)
    /\ UNCHANGED <<state, inputValue, isStreaming, isWaitingForResponse,
                   showHistory, isLoadingHistory, gen, timers, shadow, currentPage, accepted, pageVars>>

\* onClose: ChatPanel renders null but stays mounted
OnClose ==
    /\ Mounted(state)
    /\ isChatOpen
    /\ isChatOpen' = FALSE
    /\ lastOp' = "none"
    /\ probe' = Disturb(probe)
    /\ UNCHANGED <<state, inputValue, isStreaming, isWaitingForResponse,
                   showHistory, isLoadingHistory, gen, requests, timers, ops, shadow, currentPage, accepted, pageVars>>

----------------------------------------------------------------------------
(* ChatPanel (components/ChatPanel.tsx) *)

\* The user displays another chat (new chat or history selection): the send
\* and feedback requests still pending, and the typing simulations still
\* running, are remembered as issued for a chat that is no longer displayed.
Displaced(reqs) ==
    { IF q.kind \in {"send", "fb"} THEN [q EXCEPT !.displaced = TRUE] ELSE q : q \in reqs }

DisplacedTimers(ts) == { [t EXCEPT !.displaced = TRUE] : t \in ts }

\* A state setter of a component instance that is no longer the mounted one
\* does nothing.
Live(r) == Mounted(state) /\ r.gen = gen

\* initializeChatSession after the await, success
InitializeResolveOk(r, history) ==
    /\ r \in requests /\ r.kind = "boot"
    /\ requests' = requests \ {r}
    /\ state' = dispatchAll(state, << setChatHistory(history),
                                      setCurrentChat(NewChat),
                                      setMessages(<<>>) >>)
    /\ lastOp' = "none"
    /\ probe' = Replace(probe)
    /\ UNCHANGED <<panelVars, gen, timers, ops, shadow, currentPage, accepted, pageVars>>

\* initializeChatSession after the await, catch
InitializeResolveFail(r) ==
    /\ r \in requests /\ r.kind = "boot"
    /\ requests' = requests \ {r}
    /\ state' = appReducer(state, setError(ErrInit))
    /\ lastOp' = "none"
    /\ probe' = Disturb(probe)
    /\ UNCHANGED <<panelVars, gen, timers, ops, shadow, currentPage, accepted, pageVars>>

\* handleNewChat that also dismisses the error banner
HandleNewChat_ClearsError ==
    /\ Mounted(state) /\ isChatOpen
    /\ state' = dispatchAll(state,
         << setCurrentChat(NewChat), setMessages(<<>>), setError(Null) >>)
    /\ showHistory' = FALSE
    /\ lastOp' = "newChat"
    /\ probe' = Replace(probe)
    /\ requests' = Displaced(requests)
    /\ timers' = DisplacedTimers(timers)
    /\ UNCHANGED <<isChatOpen, inputValue, isStreaming, isWaitingForResponse,
                   isLoadingHistory, gen, ops, shadow, currentPage, accepted, pageVars>>

\* handleNewChat
HandleNewChat ==
    /\ Mounted(state) /\ isChatOpen
    /\ state' = dispatchAll(state, << setCurrentChat(NewChat), setMessages(<<>>) >>)
    /\ showHistory' = FALSE
    /\ lastOp' = "newChat"
    /\ probe' = Replace(probe)
    /\ requests' = Displaced(requests)
    /\ timers' = DisplacedTimers(timers)
    /\ UNCHANGED <<isChatOpen, inputValue, isStreaming, isWaitingForResponse,
                   isLoadingHistory, gen, ops, shadow, currentPage, accepted, pageVars>>

ToggleHistory ==
    /\ Mounted(state) /\ isChatOpen
    /\ showHistory' = ~showHistory
    /\ lastOp' = "none"
    /\ probe' = Disturb(probe)
    /\ UNCHANGED <<state, isChatOpen, inputValue, isStreaming, isWaitingForResponse,
                   isLoadingHistory, gen, requests, timers, ops, shadow, currentPage, accepted, pageVars>>

\* handleHistoryItemClick up to its await of historyApi.getChatMessages
HandleHistoryItemClick(chatId) ==
    /\ Mounted(state) /\ isChatOpen /\ showHistory
    /\ \E i \in 1..Len(state.chatHistory) : state.chatHistory[i].id = chatId
    /\ state.user # NullUser
    /\ ops < MaxOps
    /\ ops' = ops + 1
    /\ isLoadingHistory' = TRUE
    /\ showHistory' = FALSE
    /\ state' = appReducer(state, setCurrentChat(chatId))
    /\ requests' = Displaced(requests) \cup
         { [kind |-> "hist", chatId |-> chatId, username |-> state.user.username, gen |-> gen] }
    /\ timers' = DisplacedTimers(timers)
    /\ lastOp' = "none"
    /\ probe' = Disturb(probe)
    /\ UNCHANGED <<isChatOpen, inputValue, isStreaming, isWaitingForResponse,
                   gen, shadow, currentPage, accepted, pageVars>>

\* handleHistoryItemClick after the await, success
HistoryResolveOk(r) ==
    /\ r \in requests /\ r.kind = "hist"
    /\ requests' = requests \ {r}
    /\ state' = appReducer(state, setMessages(StoredMessages(r.chatId)))
    /\ isLoadingHistory' = IF Live(r) THEN FALSE ELSE isLoadingHistory
    /\ lastOp' = "none"
    /\ probe' = Replace(probe)
    /\ UNCHANGED <<isChatOpen, inputValue, isStreaming, isWaitingForResponse,
                   showHistory, gen, timers, ops, shadow, currentPage, accepted, pageVars>>

\* handleHistoryItemClick after the await, catch
HistoryResolveFail(r) ==
    /\ r \in requests /\ r.kind = "hist"
    /\ requests' = requests \ {r}
    /\ state' = appReducer(state, setError(ErrLoad))
    /\ isLoadingHistory' = IF Live(r) THEN FALSE ELSE isLoadingHistory
    /\ lastOp' = "none"
    /\ probe' = Disturb(probe)
    /\ UNCHANGED <<isChatOpen, inputValue, isStreaming, isWaitingForResponse,
                   showHistory, gen, timers, ops, shadow, currentPage, accepted, pageVars>>

\* onChange of the input box (disabled while waiting or streaming)
SetInputValue(text) ==
    /\ Mounted(state) /\ isChatOpen
    /\ ~isWaitingForResponse /\ ~isStreaming
    /\ inputValue # text
    /\ inputValue' = text
    /\ lastOp' = "none"
    /\ probe' = Disturb(probe)
    /\ UNCHANGED <<state, isChatOpen, isStreaming, isWaitingForResponse,
                   showHistory, isLoadingHistory, gen, requests, timers, ops, shadow, currentPage, accepted, pageVars>>

\* The guard without trim(): `if (!inputValue || !state.user) return`
SendAccepted_NoTrim(text, user) == text # <<>> /\ user # NullUser

\* The guard of handleSendMessage: `if (!inputValue.trim() || !state.user) return`
SendAccepted(text, user) == trim(text) # <<>> /\ user # NullUser

\* `state.messages.length`: the index of the user message, not the placeholder
assistantMessageIndex_UserIndex(s) == Len(s.messages)

\* `state.messages.length + 1`, read from the render in which the handler ran
assistantMessageIndex(s) == Len(s.messages) + 1

\* The chat_id field when only the sentinel is tested for
RequestChatId_SentinelOnly(currentChatId) ==
    IF currentChatId = NewChat THEN Undefined ELSE currentChatId

\* The chat_id field of the chat request
RequestChatId(currentChatId) ==
    IF currentChatId = NewChat \/ currentChatId = Null THEN Undefined ELSE currentChatId

\* `response.chat_id && state.currentChatId === 'new_chat'`
AdoptsChatId(responseChatId, currentChatId) ==
    responseChatId # "" /\ currentChatId = NewChat

\* The chat id the backend answers with: the one of the request, or a new one
ResponseChatIds(r) ==
    IF r.chat_id = Undefined THEN BackendChatIds ELSE {r.chat_id}

\* The Send button and the Enter key call handleSendMessage unless the panel
\* is waiting or streaming; Enter calls it with a blank input box too.
HandleSendMessage ==
    /\ Mounted(state) /\ isChatOpen
    /\ ~isWaitingForResponse /\ ~isStreaming
    /\ IF ~SendAccepted(inputValue, state.user)
       THEN /\ lastOp' = "sendRejected"
            /\ probe' = Disturb(probe)
            /\ UNCHANGED <<state, panelVars, gen, requests, timers, ops, shadow, currentPage, accepted, pageVars>>
       ELSE /\ ops < MaxOps
            /\ ops' = ops + 1
            /\ inputValue' = <<>>
            /\ state' = dispatchAll(state,
                 << addMessage([role |-> "user", content |-> trim(inputValue), feedback |-> None]),
                    addMessage([role |-> "assistant", content |-> <<>>, feedback |-> None]) >>)
            /\ isWaitingForResponse' = TRUE
            /\ requests' = requests \cup
                 { [ kind |-> "send",
                     index |-> assistantMessageIndex(state),
                     user_input |-> trim(inputValue),
                     chat_id |-> RequestChatId(state.currentChatId),
                     username |-> state.user.username,
                     currentChatId |-> state.currentChatId,
                     gen |-> gen,
                     displaced |-> FALSE ] }
            /\ lastOp' = "none"
            /\ probe' = [ phase |-> "waiting",
                          index |-> assistantMessageIndex(state),
                          gen |-> gen,
                          pre |-> state.messages,
                          text |-> trim(inputValue),
                          chatId |-> state.currentChatId,
                          returned |-> Null,
                          response |-> <<>>,
                          alone |-> TRUE,
                          intact |-> TRUE ]
            /\ UNCHANGED <<isChatOpen, isStreaming, showHistory, isLoadingHistory,
                           gen, timers, shadow, currentPage, accepted, pageVars>>

\* handleSendMessage after the await, success, including the synchronous
\* part of simulateStreamingResponse (first five characters, timer started)
SendResolveOk(r, response, chatId) ==
    /\ r \in requests /\ r.kind = "send"
    /\ chatId \in ResponseChatIds(r)
    /\ requests' = requests \ {r}
    /\ isWaitingForResponse' = IF Live(r) THEN FALSE ELSE isWaitingForResponse
    /\ state' = dispatchAll(state,
         (IF AdoptsChatId(chatId, r.currentChatId)
          THEN << setCurrentChat(chatId), setNeedsHistoryRefresh(TRUE) >>
          ELSE << >>)
         \o << updateMessage(r.index,
                 [role |-> "assistant", content |-> substring(response, 0, 5),
                  feedback |-> None]) >>)
    /\ isStreaming' = IF Live(r) THEN TRUE ELSE isStreaming
    /\ timers' = timers \cup
         { [ messageIndex |-> r.index, fullResponse |-> response,
             currentIndex |-> 5, gen |-> r.gen, displaced |-> r.displaced ] }
    /\ lastOp' = "none"
    /\ probe' = IF Own(r)
                THEN [probe EXCEPT !.phase = "streaming", !.returned = chatId,
                                   !.response = response]
                ELSE Disturb(probe)
    /\ UNCHANGED <<isChatOpen, inputValue, showHistory, isLoadingHistory, gen, ops, shadow, currentPage, accepted, pageVars>>

\* The catch of the full-page Chat in place of ChatPanel's: the placeholder
\* is dropped instead of being filled with the apology
SendResolveFail_DropsPlaceholder(r) ==
    /\ r \in requests /\ r.kind = "send"
    /\ requests' = requests \ {r}
    /\ isWaitingForResponse' = IF Live(r) THEN FALSE ELSE isWaitingForResponse
    /\ state' = dispatchAll(state,
         << setError(ErrSend),
            setMessages(SubSeq(state.messages, 1, Len(state.messages) - 1)) >>)
    /\ lastOp' = "none"
    /\ probe' = IF Own(r) THEN [probe EXCEPT !.phase = "failed"] ELSE Disturb(probe)
    /\ UNCHANGED <<isChatOpen, inputValue, isStreaming, showHistory,
                   isLoadingHistory, gen, timers, ops, shadow, currentPage, accepted, pageVars>>

\* A catch that does not call setIsWaitingForResponse(false)
SendResolveFail_KeepsWaiting(r) ==
    /\ r \in requests /\ r.kind = "send"
    /\ requests' = requests \ {r}
    /\ state' = dispatchAll(state,
         << setError(ErrSend),
            updateMessage(r.index,
              [role |-> "assistant", content |-> Apology, feedback |-> None]) >>)
    /\ lastOp' = "none"
    /\ probe' = IF Own(r) THEN [probe EXCEPT !.phase = "failed"] ELSE Disturb(probe)
    /\ UNCHANGED <<isChatOpen, inputValue, isStreaming, isWaitingForResponse, showHistory,
                   isLoadingHistory, gen, timers, ops, shadow, currentPage, accepted, pageVars>>

\* handleSendMessage after the await, catch
SendResolveFail(r) ==
    /\ r \in requests /\ r.kind = "send"
    /\ requests' = requests \ {r}
    /\ isWaitingForResponse' = IF Live(r) THEN FALSE ELSE isWaitingForResponse
    /\ state' = dispatchAll(state,
         << setError(ErrSend),
            updateMessage(r.index,
              [role |-> "assistant", content |-> Apology, feedback |-> None]) >>)
    /\ lastOp' = "none"
    /\ probe' = IF Own(r) THEN [probe EXCEPT !.phase = "failed"] ELSE Disturb(probe)
    /\ UNCHANGED <<isChatOpen, inputValue, isStreaming, showHistory,
                   isLoadingHistory, gen, timers, ops, shadow, currentPage, accepted, pageVars>>

\* One firing of the setInterval callback of simulateStreamingResponse
StreamingTick(t) ==
    /\ t \in timers
    /\ IF t.currentIndex < Len(t.fullResponse)
       THEN /\ timers' = (timers \ {t}) \cup
                  { [t EXCEPT !.currentIndex = t.currentIndex + 8] }
            /\ state' = appReducer(state,
                 updateMessage(t.messageIndex,
                   [role |-> "assistant",
                    content |-> substring(t.fullResponse, 0, t.currentIndex + 8),
                    feedback |-> None]))
            /\ isStreaming' = isStreaming
            /\ lastOp' = "none"
            /\ probe' = IF OwnTimer(t) THEN probe ELSE Disturb(probe)
       ELSE /\ timers' = timers \ {t}
            /\ isStreaming' = IF Live(t) THEN FALSE ELSE isStreaming
            /\ state' = appReducer(state,
                 updateMessage(t.messageIndex,
                   [role |-> "assistant", content |-> t.fullResponse,
                    feedback |-> None]))
            /\ lastOp' = "none"
            /\ probe' = IF OwnTimer(t) THEN [probe EXCEPT !.phase = "done"] ELSE Disturb(probe)
    /\ UNCHANGED <<isChatOpen, inputValue, isWaitingForResponse, showHistory,
                   isLoadingHistory, gen, requests, ops, shadow, currentPage, accepted, pageVars>>

\* The guard without `!state.currentChatId`
FeedbackAccepted_NoChatCheck(s, messageIndex) ==
    /\ messageIndex < Len(s.messages)
    /\ s.user # NullUser
    /\ s.messages[messageIndex + 1].role = "assistant"

\* The guard of handleFeedback:
\* `!currentMessage || !state.user || !state.currentChatId || role !== 'assistant'`
FeedbackAccepted(s, messageIndex) ==
    /\ messageIndex < Len(s.messages)
    /\ s.user # NullUser
    /\ s.currentChatId # Null /\ s.currentChatId # ""
    /\ s.messages[messageIndex + 1].role = "assistant"

\* The like/dislike buttons are rendered for assistant messages with content
FeedbackButtonsShown(s, messageIndex) ==
    /\ messageIndex < Len(s.messages)
    /\ s.messages[messageIndex + 1].role = "assistant"
    /\ s.messages[messageIndex + 1].content # <<>>

\* The pending feedback submissions for one message of one chat
SamePending(reqs, messageIndex, chatId) ==
    { r \in reqs : r.kind = "fb" /\ r.index = messageIndex /\ r.chat_id = chatId }

\* A new submission for a message overlaps the ones still pending for it
Overlapped(reqs, messageIndex, chatId) ==
    { IF r \in SamePending(reqs, messageIndex, chatId)
      THEN [r EXCEPT !.overlaps = TRUE] ELSE r : r \in reqs }

\* handleFeedback up to its await of chatApi.submitFeedback.  It is called
\* from a rendered button, or on an index its guard rejects.
HandleFeedback(messageIndex, feedbackType) ==
    /\ Mounted(state) /\ isChatOpen
    /\ messageIndex \in 0..Len(state.messages)
    /\ FeedbackButtonsShown(state, messageIndex) \/ ~FeedbackAccepted(state, messageIndex)
    /\ IF ~FeedbackAccepted(state, messageIndex)
       THEN /\ lastOp' = "feedbackRejected"
            /\ UNCHANGED <<state, requests, ops>>
       ELSE /\ ops < MaxOps
            /\ ops' = ops + 1
            /\ state' = appReducer(state, updateMessageFeedback(messageIndex, feedbackType))
            /\ requests' = Overlapped(requests, messageIndex, state.currentChatId) \cup
                 { [ kind |-> "fb",
                     index |-> messageIndex,
                     username |-> state.user.username,
                     chat_id |-> state.currentChatId,
                     message_index |-> messageIndex \div 2,
                     user_message |-> IF messageIndex >= 1
                                      THEN state.messages[messageIndex].content
                                      ELSE <<>>,
                     assistant_message |-> state.messages[messageIndex + 1].content,
                     feedback_type |-> feedbackType,
                     overlaps |-> SamePending(requests, messageIndex, state.currentChatId) # {},
                     displaced |-> FALSE ] }
            /\ lastOp' = "none"
    /\ probe' = Disturb(probe)
    /\ UNCHANGED <<panelVars, gen, timers, shadow, currentPage, accepted, pageVars>>

\* handleFeedback after the await, success: nothing is dispatched
FeedbackResolveOk(r) ==
    /\ r \in requests /\ r.kind = "fb"
    /\ requests' = requests \ {r}
    /\ accepted' = r
    /\ lastOp' = "none"
    /\ probe' = Disturb(probe)
    /\ UNCHANGED <<state, panelVars, gen, timers, ops, shadow, currentPage, pageVars>>

\* handleFeedback after the await, catch
FeedbackResolveFail(r) ==
    /\ r \in requests /\ r.kind = "fb"
    /\ requests' = requests \ {r}
    /\ state' = dispatchAll(state,
         << updateMessageFeedback(r.index, None), setError(ErrFeedback) >>)
    /\ lastOp' = "none"
    /\ probe' = Disturb(probe)
    /\ UNCHANGED <<panelVars, gen, timers, ops, shadow, currentPage, accepted, pageVars>>

----------------------------------------------------------------------------

Next ==
    \/ \E c \in Credentials : LoginHandleSubmit(c)
    \/ \E r \in requests, o \in LoginOutcomes(Kamala) : LoginResolveOk(r, o)
    \/ \E r \in requests, o \in LoginOutcomes(Kamala) : LoginResolveFail(r, o)
    \/ HandleLogout
    \/ \E r \in requests : LogoutResolve(r)
    \/ HandleDismissError
    \/ HandleChatClick
    \/ OnClose
    \/ \E r \in requests, h \in HistoryLists : InitializeResolveOk(r, h)
    \/ \E r \in requests : InitializeResolveFail(r)
    \/ HandleNewChat
    \/ ToggleHistory
    \/ \E c \in StoredChatIds : HandleHistoryItemClick(c)
    \/ \E r \in requests : HistoryResolveOk(r)
    \/ \E r \in requests : HistoryResolveFail(r)
    \/ \E t \in Inputs \cup {<<>>} : SetInputValue(t)
    \/ HandleSendMessage
    \/ \E r \in requests, resp \in Responses, c \in ChatIds : SendResolveOk(r, resp, c)
    \/ \E r \in requests : SendResolveFail(r)
    \/ \E t \in timers : StreamingTick(t)
    \/ \E i \in 0..Len(state.messages), f \in {"liked", "disliked"} : HandleFeedback(i, f)
    \/ \E r \in requests : FeedbackResolveOk(r)
    \/ \E r \in requests : FeedbackResolveFail(r)

Spec == Init /\ [][Next]_vars

\* The steps the browser takes by itself: a pending promise settles or an
\* interval fires.  Every other step of Next waits for the user.
Continuation ==
    \/ \E r \in requests, o \in LoginOutcomes(Kamala) : LoginResolveOk(r, o)
    \/ \E r \in requests, o \in LoginOutcomes(Kamala) : LoginResolveFail(r, o)
    \/ \E r \in requests : LogoutResolve(r)
    \/ \E r \in requests, h \in HistoryLists : InitializeResolveOk(r, h)
    \/ \E r \in requests : InitializeResolveFail(r)
    \/ \E r \in requests : HistoryResolveOk(r)
    \/ \E r \in requests : HistoryResolveFail(r)
    \/ \E r \in requests, resp \in Responses, c \in ChatIds : SendResolveOk(r, resp, c)
    \/ \E r \in requests : SendResolveFail(r)
    \/ \E t \in timers : StreamingTick(t)
    \/ \E r \in requests : FeedbackResolveOk(r)
    \/ \E r \in requests : FeedbackResolveFail(r)

\* Every pending promise settles and every running interval fires
SpecFair == Spec /\ WF_vars(Continuation)

\* The chat panel in use: kamala has logged in, opened the panel, and the
\* bootstrap has resolved with the stored history (a state Spec reaches by
\* LoginHandleSubmit, LoginResolveOk, HandleChatClick, InitializeResolveOk)
----------------------------------------------------------------------------
(* Full-page chat (components/Chat.tsx).  The component is taken as the    *)
(* page shown by Layout, currentPage = "chat", with the panel closed.      *)

ChatPage == "chat"
ChatMounted == Mounted(state) /\ currentPage = ChatPage

ChatResponses == Responses \cup { HiThere, <<"a", " ", " ", "b", " ">> }

\* String.prototype.split(' '): the pieces between the spaces, empty pieces
\* included; the empty string gives one empty piece
RECURSIVE split(_)
split(s) ==
    IF \A i \in 1..Len(s) : s[i] # " "
    THEN << s >>
    ELSE LET i == CHOOSE k \in 1..Len(s) :
                     s[k] = " " /\ \A j \in 1..(k - 1) : s[j] # " "
         IN  << SubSeq(s, 1, i - 1) >> \o split(SubSeq(s, i + 1, Len(s)))

\* `currentResponse += words[wordIndex]`, the separator left out
NextResponse_NoSeparator(t) == t.currentResponse \o t.words[t.wordIndex + 1]

\* `currentResponse += (wordIndex > 0 ? ' ' : '') + words[wordIndex]`
NextResponse(t) ==
    t.currentResponse \o (IF t.wordIndex > 0 THEN <<" ">> ELSE <<>>) \o t.words[t.wordIndex + 1]

\* The timers whose message list has been replaced
ReplacedTimers(ts) == { [t EXCEPT !.replaced = TRUE] : t \in ts }

ChatSetInputValue(text) ==
    /\ ChatMounted
    /\ ~chatIsStreaming
    /\ chatInputValue # text
    /\ chatInputValue' = text
    /\ lastOp' = "none"
    /\ UNCHANGED <<state, panelVars, gen, requests, timers, ops, probe, shadow,
                   currentPage, accepted, chatIsStreaming, chatTimers, nonChatVars>>

\* The guard of Chat.handleSendMessage:
\* `!inputValue.trim() || !state.user || isStreaming`
ChatSendAccepted(text, user, streaming) ==
    trim(text) # <<>> /\ user # NullUser /\ ~streaming

\* Chat.handleSendMessage up to its await of chatApi.sendMessage.  The
\* request keeps the `state` of the render the handler was created in.
ChatHandleSendMessage ==
    /\ ChatMounted
    /\ ~chatIsStreaming
    /\ IF ~ChatSendAccepted(chatInputValue, state.user, chatIsStreaming)
       THEN /\ lastOp' = "chatSendRejected"
            /\ UNCHANGED <<state, requests, ops, chatInputValue, chatIsStreaming>>
       ELSE /\ ops < MaxOps
            /\ ops' = ops + 1
            /\ state' = dispatchAll(state,
                 << addMessage([role |-> "user", content |-> trim(chatInputValue),
                                feedback |-> None]),
                    addMessage([role |-> "assistant", content |-> <<>>, feedback |-> None]) >>)
            /\ chatInputValue' = <<>>
            /\ chatIsStreaming' = TRUE
            /\ requests' = requests \cup
                 { [ kind |-> "chatSend",
                     index |-> Len(state.messages) + 1,
                     user_input |-> trim(chatInputValue),
                     chat_id |-> RequestChatId(state.currentChatId),
                     username |-> state.user.username,
                     currentChatId |-> state.currentChatId,
                     messages |-> state.messages,
                     replaced |-> FALSE ] }
            /\ lastOp' = "none"
    /\ UNCHANGED <<panelVars, gen, timers, probe, shadow, currentPage, accepted, chatTimers, nonChatVars>>

\* Chat.handleSendMessage after the await, success: the chat id is adopted,
\* the history-refresh effect runs on the raised flag (loadChatHistory is
\* called and the flag lowered), and simulateStreamingResponse starts its
\* interval
ChatSendResolveOk(r, response, chatId) ==
    /\ r \in requests /\ r.kind = "chatSend"
    /\ chatId \in ResponseChatIds(r)
    /\ IF r.currentChatId = NewChat \/ r.currentChatId = Null
       THEN /\ state' = dispatchAll(state,
                 << setCurrentChat(chatId), setNeedsHistoryRefresh(TRUE),
                    setNeedsHistoryRefresh(FALSE) >>)
            /\ requests' = (requests \ {r}) \cup { [kind |-> "chatLoad", attempt |-> ops] }
       ELSE /\ state' = state
            /\ requests' = requests \ {r}
    /\ chatTimers' = chatTimers \cup
         { [ messageIndex |-> r.index, fullResponse |-> response,
             words |-> split(response), currentResponse |-> <<>>, wordIndex |-> 0,
             replaced |-> r.replaced ] }
    /\ lastOp' = "none"
    /\ UNCHANGED <<panelVars, gen, timers, ops, probe, shadow, currentPage, accepted,
                   chatInputValue, chatIsStreaming, nonChatVars>>

\* Chat.handleSendMessage after the await, catch: `state.messages` is the
\* list of the render the handler was created in
ChatSendResolveFail(r) ==
    /\ r \in requests /\ r.kind = "chatSend"
    /\ requests' = requests \ {r}
    /\ state' = dispatchAll(state,
         << setError(ErrSend),
            setMessages(SubSeq(r.messages, 1, Len(r.messages) - 1)) >>)
    /\ chatIsStreaming' = FALSE
    /\ chatTimers' = ReplacedTimers(chatTimers)
    /\ lastOp' = "chatSendFailed"
    /\ UNCHANGED <<panelVars, gen, timers, ops, probe, shadow, currentPage, accepted,
                   chatInputValue, nonChatVars>>

\* One firing of the setInterval callback of Chat.simulateStreamingResponse
ChatStreamingTick(t) ==
    /\ t \in chatTimers
    /\ IF t.wordIndex < Len(t.words)
       THEN /\ chatTimers' = (chatTimers \ {t}) \cup
                  { [t EXCEPT !.currentResponse = NextResponse(t),
                              !.wordIndex = t.wordIndex + 1] }
            /\ state' = appReducer(state,
                 updateMessage(t.messageIndex,
                   [role |-> "assistant", content |-> NextResponse(t), feedback |-> None]))
            /\ chatIsStreaming' = chatIsStreaming
            /\ lastOp' = "none"
       ELSE /\ chatTimers' = chatTimers \ {t}
            /\ chatIsStreaming' = FALSE
            /\ state' = state
            /\ lastOp' = "chatStreamed"
    /\ UNCHANGED <<panelVars, gen, requests, timers, ops, probe, shadow, currentPage,
                   accepted, chatInputValue, nonChatVars>>

\* Chat.loadChatHistory after its await
ChatLoadResolveOk(r, history) ==
    /\ r \in requests /\ r.kind = "chatLoad"
    /\ requests' = requests \ {r}
    /\ state' = appReducer(state, setChatHistory(history))
    /\ lastOp' = "none"
    /\ UNCHANGED <<panelVars, gen, timers, ops, probe, shadow, currentPage, accepted, pageVars>>

ChatLoadResolveFail(r) ==
    /\ r \in requests /\ r.kind = "chatLoad"
    /\ requests' = requests \ {r}
    /\ state' = appReducer(state, setError(ErrLoadHistory))
    /\ lastOp' = "none"
    /\ UNCHANGED <<panelVars, gen, timers, ops, probe, shadow, currentPage, accepted, pageVars>>

\* Chat.handleNewChat
ChatHandleNewChat ==
    /\ ChatMounted
    /\ state.currentChatId # NewChat \/ state.messages # <<>>
    /\ state' = dispatchAll(state, << setCurrentChat(NewChat), setMessages(<<>>) >>)
    /\ requests' = { IF r.kind = "chatSend" THEN [r EXCEPT !.replaced = TRUE] ELSE r :
                     r \in requests }
    /\ chatTimers' = ReplacedTimers(chatTimers)
    /\ lastOp' = "none"
    /\ UNCHANGED <<panelVars, gen, timers, ops, probe, shadow, currentPage, accepted,
                   chatInputValue, chatIsStreaming, nonChatVars>>

\* Chat.handleFeedback: the tag is toggled locally, no request is made
ChatHandleFeedback(messageIndex, feedback) ==
    /\ ChatMounted
    /\ FeedbackButtonsShown(state, messageIndex)
    /\ state' = appReducer(state,
         updateMessageFeedback(messageIndex,
           IF state.messages[messageIndex + 1].feedback = feedback THEN None ELSE feedback))
    /\ lastOp' = "none"
    /\ UNCHANGED <<panelVars, gen, requests, timers, ops, probe, shadow, currentPage,
                   accepted, pageVars>>

\* The user is logged in with stored history; either the panel is open and
\* bootstrapped, or the full-page chat is shown on the most recent chat or on
\* a new one
InitChat ==
    /\ currentPage \in {"dashboard", ChatPage}
    /\ isChatOpen = (currentPage # ChatPage)
    /\ state \in
         IF currentPage = ChatPage
         THEN { [initialState EXCEPT !.user = Kamala, !.chatHistory = StoredHistory,
                                     !.currentChatId = c, !.messages = m] :
                <<c, m>> \in { <<NewChat, <<>> >>, <<"A", StoredMessages("A")>> } }
         ELSE { [initialState EXCEPT !.user = Kamala, !.chatHistory = StoredHistory,
                                     !.currentChatId = NewChat] }
    /\ inputValue = <<>>
    /\ isStreaming = FALSE
    /\ isWaitingForResponse = FALSE
    /\ showHistory = FALSE
    /\ isLoadingHistory = FALSE
    /\ gen = 1
    /\ requests = {}
    /\ timers = {}
    /\ lastOp = "none"
    /\ ops = 0
    /\ probe = NoProbe
    /\ shadow = <<>>
    /\ AuxInit

ChatNext ==
    \/ \E text \in Inputs : SetInputValue(text)
    \/ ops < MaxChatOps /\ HandleSendMessage
    \/ \E r \in requests, resp \in ChatResponses, c \in ChatIds : SendResolveOk(r, resp, c)
    \/ \E r \in requests : SendResolveFail(r)
    \/ \E t \in timers : StreamingTick(t)
    \/ \E text \in Inputs : ChatSetInputValue(text)
    \/ ops < MaxChatOps /\ ChatHandleSendMessage
    \/ \E r \in requests, resp \in ChatResponses, c \in ChatIds : ChatSendResolveOk(r, resp, c)
    \/ \E r \in requests : ChatSendResolveFail(r)
    \/ \E t \in chatTimers : ChatStreamingTick(t)
    \/ \E r \in requests, h \in HistoryLists : ChatLoadResolveOk(r, h)
    \/ \E r \in requests : ChatLoadResolveFail(r)
    \/ ChatHandleNewChat
    \/ \E i \in 0..Len(state.messages), f \in {"liked", "disliked"} : ChatHandleFeedback(i, f)

\* Pending promises settle and running intervals keep firing
ChatContinuation ==
    \/ \E r \in requests, resp \in ChatResponses, c \in ChatIds : SendResolveOk(r, resp, c)
    \/ \E r \in requests : SendResolveFail(r)
    \/ \E t \in timers : StreamingTick(t)
    \/ \E r \in requests, resp \in ChatResponses, c \in ChatIds : ChatSendResolveOk(r, resp, c)
    \/ \E r \in requests : ChatSendResolveFail(r)
    \/ \E t \in chatTimers : ChatStreamingTick(t)
    \/ \E r \in requests, h \in HistoryLists : ChatLoadResolveOk(r, h)
    \/ \E r \in requests : ChatLoadResolveFail(r)

SpecChat == InitChat /\ [][ChatNext]_vars

SpecChatFair == SpecChat /\ WF_vars(ChatContinuation)

----------------------------------------------------------------------------
(* Documents page (components/DocumentManagement.tsx).  Document ids are   *)
(* numbers; the backend lists them in ascending order, ten to a page.      *)

ItemsPerPage == 10

DocsMounted == Mounted(state) /\ currentPage = "document-management"

\* documentsApi.getAllDocuments(page, 10): the documents of one page and the
\* number of pages
PageOf(stored, page) ==
    { d \in stored :
        Cardinality({ e \in stored : e < d }) \div ItemsPerPage = page - 1 }

TotalPages(stored) ==
    IF stored = {} THEN 1
    ELSE (Cardinality(stored) + ItemsPerPage - 1) \div ItemsPerPage

\* What no documents action changes
docFrame == <<panelVars, gen, timers, probe, shadow, currentPage, accepted, nonDocVars>>

\* loadDocuments(page) up to its await
LoadDocuments(s, reqs, page) ==
    /\ state' = appReducer(s, setLoading(TRUE))
    /\ requests' = reqs \cup { [kind |-> "docLoad", page |-> page, attempt |-> ops] }

DocsLoadResolveOk(r) ==
    /\ r \in requests /\ r.kind = "docLoad"
    /\ requests' = requests \ {r}
    /\ documents' = PageOf(storedDocuments, r.page)
    /\ pagination' = TotalPages(storedDocuments)
    /\ docCurrentPage' = r.page
    /\ state' = appReducer(state, setLoading(FALSE))
    /\ lastOp' = "none"
    /\ UNCHANGED <<docFrame, ops, documentsToDelete, storedDocuments>>

DocsLoadResolveFail(r) ==
    /\ r \in requests /\ r.kind = "docLoad"
    /\ requests' = requests \ {r}
    /\ state' = dispatchAll(state, << setError("Failed to load documents"), setLoading(FALSE) >>)
    /\ lastOp' = "none"
    /\ UNCHANGED <<docFrame, ops, docVars>>

\* handlePageChange, from a button of the Pagination component
HandlePageChange(page) ==
    /\ DocsMounted
    /\ page \in 1..pagination /\ page # docCurrentPage
    /\ ops < MaxDocOps
    /\ ops' = ops + 1
    /\ docCurrentPage' = page
    /\ LoadDocuments(state, requests, page)
    /\ lastOp' = "none"
    /\ UNCHANGED <<docFrame, documents, documentsToDelete, pagination, storedDocuments>>

\* toggleDeleteSelection, from the checkbox of a displayed row
ToggleDeleteSelection(documentId) ==
    /\ DocsMounted
    /\ documentId \in documents
    /\ ops < MaxDocOps
    /\ ops' = ops + 1
    /\ documentsToDelete' =
         IF documentId \in documentsToDelete
         THEN documentsToDelete \ {documentId}
         ELSE documentsToDelete \cup {documentId}
    /\ lastOp' = "none"
    /\ UNCHANGED <<docFrame, state, requests, documents, docCurrentPage, pagination,
                   storedDocuments>>

\* The select-all checkbox of the table header
SelectAll(checked) ==
    /\ DocsMounted
    /\ checked = ~(Cardinality(documentsToDelete) = Cardinality(documents) /\ documents # {})
    /\ ops < MaxDocOps
    /\ ops' = ops + 1
    /\ documentsToDelete' = IF checked THEN documents ELSE {}
    /\ lastOp' = "none"
    /\ UNCHANGED <<docFrame, state, requests, documents, docCurrentPage, pagination,
                   storedDocuments>>

\* handleDeleteSelected up to its await of Promise.all
HandleDeleteSelected(confirmDelete) ==
    /\ DocsMounted
    /\ IF documentsToDelete = {} \/ ~confirmDelete
       THEN /\ lastOp' = "deleteCancelled"
            /\ UNCHANGED <<state, requests, ops>>
       ELSE /\ ops < MaxDocOps
            /\ ops' = ops + 1
            /\ state' = appReducer(state, setLoading(TRUE))
            /\ requests' = requests \cup
                 { [kind |-> "docBulk", ids |-> documentsToDelete, attempt |-> ops] }
            /\ lastOp' = "none"
    /\ UNCHANGED <<docFrame, docVars>>

\* handleDeleteSelected after the await, every delete succeeded: the
\* selection is emptied and handleRefresh reloads page 1
DocsBulkResolveOk(r) ==
    /\ r \in requests /\ r.kind = "docBulk"
    /\ storedDocuments' = storedDocuments \ r.ids
    /\ documentsToDelete' = {}
    /\ LoadDocuments(appReducer(state, setLoading(FALSE)), requests \ {r}, 1)
    /\ lastOp' = "none"
    /\ UNCHANGED <<docFrame, ops, documents, docCurrentPage, pagination>>

\* handleDeleteSelected after the await, one delete failed; the others may
\* have gone through
DocsBulkResolveFail(r, deleted) ==
    /\ r \in requests /\ r.kind = "docBulk"
    /\ deleted \subseteq r.ids /\ deleted # r.ids
    /\ requests' = requests \ {r}
    /\ storedDocuments' = storedDocuments \ deleted
    /\ state' = dispatchAll(state,
         << setError("Failed to delete documents. Please try again."), setLoading(FALSE) >>)
    /\ lastOp' = "none"
    /\ UNCHANGED <<docFrame, ops, documents, documentsToDelete, docCurrentPage, pagination>>

\* handleDeleteSingle up to its await, from the button of a displayed row
HandleDeleteSingle(documentId, confirmDelete) ==
    /\ DocsMounted
    /\ documentId \in documents
    /\ IF ~confirmDelete
       THEN /\ lastOp' = "deleteCancelled"
            /\ UNCHANGED <<state, requests, ops>>
       ELSE /\ ops < MaxDocOps
            /\ ops' = ops + 1
            /\ state' = appReducer(state, setLoading(TRUE))
            /\ requests' = requests \cup
                 { [kind |-> "docDelete", id |-> documentId, attempt |-> ops] }
            /\ lastOp' = "none"
    /\ UNCHANGED <<docFrame, docVars>>

\* handleDeleteSingle after the await, success: handleRefresh reloads page 1
DocsDeleteResolveOk(r) ==
    /\ r \in requests /\ r.kind = "docDelete"
    /\ storedDocuments' = storedDocuments \ {r.id}
    /\ LoadDocuments(appReducer(state, setLoading(FALSE)), requests \ {r}, 1)
    /\ lastOp' = "none"
    /\ UNCHANGED <<docFrame, ops, documents, documentsToDelete, docCurrentPage, pagination>>

DocsDeleteResolveFail(r) ==
    /\ r \in requests /\ r.kind = "docDelete"
    /\ requests' = requests \ {r}
    /\ state' = dispatchAll(state,
         << setError("Failed to delete document. Please try again."), setLoading(FALSE) >>)
    /\ lastOp' = "none"
    /\ UNCHANGED <<docFrame, ops, docVars>>

\* handleRefresh, from the Refresh button: the refreshKey effect reloads page 1
HandleRefresh ==
    /\ DocsMounted
    /\ ops < MaxDocOps
    /\ ops' = ops + 1
    /\ LoadDocuments(state, requests, 1)
    /\ lastOp' = "none"
    /\ UNCHANGED <<docFrame, docVars>>

\* The documents page right after it mounted: loadDocuments(1) is pending
InitDocs ==
    /\ state = [initialState EXCEPT !.user = Kamala, !.isLoading = TRUE]
    /\ currentPage = "document-management"
    /\ requests = { [kind |-> "docLoad", page |-> 1, attempt |-> 0] }
    /\ isChatOpen = FALSE
    /\ inputValue = <<>>
    /\ isStreaming = FALSE
    /\ isWaitingForResponse = FALSE
    /\ showHistory = FALSE
    /\ isLoadingHistory = FALSE
    /\ gen = 1
    /\ timers = {}
    /\ lastOp = "none"
    /\ ops = 0
    /\ probe = NoProbe
    /\ shadow = <<>>
    /\ AuxInit

DocsNext ==
    \/ \E r \in requests : DocsLoadResolveOk(r)
    \/ \E r \in requests : DocsLoadResolveFail(r)
    \/ \E page \in 1..pagination : HandlePageChange(page)
    \/ \E d \in documents : ToggleDeleteSelection(d)
    \/ \E checked \in BOOLEAN : SelectAll(checked)
    \/ \E confirmDelete \in BOOLEAN : HandleDeleteSelected(confirmDelete)
    \/ \E r \in requests : DocsBulkResolveOk(r)
    \/ \E r \in requests :
         r.kind = "docBulk" /\ \E deleted \in SUBSET r.ids : DocsBulkResolveFail(r, deleted)
    \/ \E d \in documents, confirmDelete \in BOOLEAN : HandleDeleteSingle(d, confirmDelete)
    \/ \E r \in requests : DocsDeleteResolveOk(r)
    \/ \E r \in requests : DocsDeleteResolveFail(r)
    \/ HandleRefresh

SpecDocs == InitDocs /\ [][DocsNext]_vars

----------------------------------------------------------------------------
(* File selection of the upload forms (components/DocumentUpload.tsx and   *)
(* the upload modal of components/DocumentManagement.tsx)                  *)

UpperCase == <<"A","B","C","D","E","F","G","H","I","J","K","L","M",
               "N","O","P","Q","R","S","T","U","V","W","X","Y","Z">>
LowerCase == <<"a","b","c","d","e","f","g","h","i","j","k","l","m",
               "n","o","p","q","r","s","t","u","v","w","x","y","z">>

\* String.prototype.toLowerCase on the letters A..Z
toLowerCase(s) ==
    [ i \in 1..Len(s) |->
        IF \E k \in 1..26 : UpperCase[k] = s[i]
        THEN LowerCase[CHOOSE k \in 1..26 : UpperCase[k] = s[i]]
        ELSE s[i] ]

\* String.prototype.endsWith
endsWith(s, suffix) ==
    /\ Len(s) >= Len(suffix)
    /\ SubSeq(s, Len(s) - Len(suffix) + 1, Len(s)) = suffix

allowedTypes == {"application/pdf", "text/plain", "text/markdown"}
allowedExtensions == { <<".","p","d","f">>, <<".","t","x","t">>, <<".","m","d">> }

\* `const maxSize = 10 * 1024 * 1024`
maxSize == 10 * 1024 * 1024

isValidType(file) ==
    \/ file.type \in allowedTypes
    \/ \E ext \in allowedExtensions : endsWith(toLowerCase(file.name), ext)

\* `file.size > maxSize`
TooLarge(file) == file.size > maxSize

\* The files a user may drop or pick
Files ==
    [ type : allowedTypes \cup {"image/png", ""},
      name : { <<"A",".","P","D","F">>, <<"n",".","m","d">>, <<"t",".","t","x","t">>,
               <<"x",".","p","n","g">>, <<"p","d","f">> },
      size : {1, maxSize - 1, maxSize, maxSize + 1} ]

\* What the validation of handleFileSelect stores as error; Null when the
\* file passes
FileError(file) ==
    IF ~isValidType(file) THEN "Please select a PDF, TXT, or Markdown file."
    ELSE IF TooLarge(file) THEN "File size must be less than 10MB."
    ELSE Null

uploadFrame == <<panelVars, gen, requests, timers, ops, probe, shadow, currentPage,
                 accepted, chatVars, docVars, geomVars>>

\* DocumentUpload.handleFileSelect
UploadHandleFileSelect(file) ==
    /\ Mounted(state) /\ currentPage = "document-upload"
    /\ IF FileError(file) # Null
       THEN /\ state' = appReducer(state, setError(FileError(file)))
            /\ uploadForm' = uploadForm
            /\ lastOp' = "fileRejected"
       ELSE /\ uploadForm' = [uploadForm EXCEPT !.file = file]
            /\ state' = appReducer(state, setError(Null))
            /\ lastOp' = "fileSelected"
    /\ UNCHANGED <<uploadFrame, modalUploadForm>>

\* DocumentManagement.handleFileSelect
ModalHandleFileSelect(file) ==
    /\ DocsMounted
    /\ IF FileError(file) # Null
       THEN /\ state' = appReducer(state, setError(FileError(file)))
            /\ modalUploadForm' = modalUploadForm
            /\ lastOp' = "fileRejected"
       ELSE /\ modalUploadForm' = [modalUploadForm EXCEPT !.file = file]
            /\ state' = state
            /\ lastOp' = "fileSelected"
    /\ UNCHANGED <<uploadFrame, uploadForm>>

\* A logged-in user on the upload page or on the documents page
InitUpload ==
    /\ state = [initialState EXCEPT !.user = Kamala]
    /\ currentPage \in {"document-upload", "document-management"}
    /\ requests = {}
    /\ isChatOpen = FALSE
    /\ inputValue = <<>>
    /\ isStreaming = FALSE
    /\ isWaitingForResponse = FALSE
    /\ showHistory = FALSE
    /\ isLoadingHistory = FALSE
    /\ gen = 1
    /\ timers = {}
    /\ lastOp = "none"
    /\ ops = 0
    /\ probe = NoProbe
    /\ shadow = <<>>
    /\ AuxInit

UploadNext ==
    \/ \E file \in Files : UploadHandleFileSelect(file)
    \/ \E file \in Files : ModalHandleFileSelect(file)

SpecUpload == InitUpload /\ [][UploadNext]_vars

----------------------------------------------------------------------------
(* Dragging and resizing of ChatPanel.  The rendered box is the style of   *)
(* the panel: left/top from `position`, width/height from `size`;          *)
(* chatPanelRef.current is null while the panel is closed.                 *)

Max(a, b) == IF a >= b THEN a ELSE b
Min(a, b) == IF a <= b THEN a ELSE b

minWidth == 300
minHeight == 400

\* Sizes the browser window is given, and where the pointer is moved to
WindowSizes == { [x |-> 1280, y |-> 800], [x |-> 1000, y |-> 800], [x |-> 1280, y |-> 450] }
PointerXs == {0, 500, 1100, 1279}
PointerYs == {0, 300, 700, 799}
HeaderOffsets == { [x |-> 10, y |-> 10], [x |-> 200, y |-> 10] }

\* An effect that registers its listeners and returns no cleanup
ListenerEffect_NoCleanup(old, dragging, resizing) ==
    old \cup (IF dragging THEN {"handleMouseMove", "handleMouseUp"}
              ELSE IF resizing THEN {"handleResizeMouseMove", "handleResizeMouseUp"}
              ELSE {})

\* The listener effect after a render: the cleanup of the previous run has
\* removed the listeners in `old`, then the ones for the new flags are added
ListenerEffect(old, dragging, resizing) ==
    IF dragging THEN {"handleMouseMove", "handleMouseUp"}
    ELSE IF resizing THEN {"handleResizeMouseMove", "handleResizeMouseUp"}
    ELSE {}

\* `Math.max(0, Math.min(p, max))` on both axes
Clamp(p, box, window) ==
    [ x |-> Max(0, Min(p.x, window.x - box.x)),
      y |-> Max(0, Min(p.y, window.y - box.y)) ]

geomFrame == <<state, panelVars, gen, requests, timers, probe, shadow, currentPage,
               accepted, chatVars, docVars, uploadVars>>

\* handleMouseDown: the button is pressed on the header, `offset` away from
\* the corner of the panel
HandleMouseDown(offset) ==
    /\ Mounted(state) /\ isChatOpen /\ ~buttonDown
    /\ ops < MaxGestures
    /\ ops' = ops + 1
    /\ position.x + offset.x \in 0..(viewport.x - 1)
    /\ position.y + offset.y \in 0..(viewport.y - 1)
    /\ offset.x < size.x
    /\ buttonDown' = TRUE
    /\ IF ~isResizing
       THEN dragOffset' = offset /\ isDragging' = TRUE
       ELSE UNCHANGED <<dragOffset, isDragging>>
    /\ listeners' = ListenerEffect(listeners, isDragging', isResizing)
    /\ lastOp' = "mouseDown"
    /\ UNCHANGED <<geomFrame, position, size, isResizing, resizeDirection, viewport>>

\* handleResizeMouseDown: the button is pressed on a resize handle
HandleResizeMouseDown(direction) ==
    /\ Mounted(state) /\ isChatOpen /\ ~buttonDown
    /\ ops < MaxGestures
    /\ ops' = ops + 1
    /\ position.x + size.x \in 1..viewport.x
    /\ position.y + size.y \in 1..viewport.y
    /\ buttonDown' = TRUE
    /\ isResizing' = TRUE
    /\ resizeDirection' = direction
    /\ listeners' = ListenerEffect(listeners, isDragging, TRUE)
    /\ lastOp' = "resizeMouseDown"
    /\ UNCHANGED <<geomFrame, position, size, isDragging, dragOffset, viewport>>

\* A mousemove event on document: handleMouseMove and handleResizeMouseMove,
\* whichever is registered
MouseMove(clientX, clientY) ==
    /\ listeners # {}
    /\ clientX < viewport.x /\ clientY < viewport.y
    /\ position' =
         IF "handleMouseMove" \in listeners /\ isDragging /\ isChatOpen
         THEN Clamp([x |-> clientX - dragOffset.x, y |-> clientY - dragOffset.y],
                    size, viewport)
         ELSE position
    /\ size' =
         IF "handleResizeMouseMove" \in listeners /\ isResizing /\ isChatOpen
         THEN [ x |-> IF resizeDirection \in {"right", "bottom-right"}
                      THEN Max(minWidth, Min(viewport.x - position.x, clientX - position.x))
                      ELSE size.x,
                y |-> IF resizeDirection \in {"bottom", "bottom-right"}
                      THEN Max(minHeight, Min(viewport.y - position.y, clientY - position.y))
                      ELSE size.y ]
         ELSE size
    /\ lastOp' = IF "handleMouseMove" \in listeners THEN "dragMove" ELSE "resizeMove"
    /\ UNCHANGED <<geomFrame, ops, isDragging, dragOffset, isResizing, resizeDirection,
                   listeners, viewport, buttonDown>>

\* A mouseup event on document: handleMouseUp and handleResizeMouseUp,
\* whichever is registered
MouseUp ==
    /\ buttonDown
    /\ buttonDown' = FALSE
    /\ isDragging' = IF "handleMouseUp" \in listeners THEN FALSE ELSE isDragging
    /\ isResizing' = IF "handleResizeMouseUp" \in listeners THEN FALSE ELSE isResizing
    /\ resizeDirection' = IF "handleResizeMouseUp" \in listeners THEN "" ELSE resizeDirection
    /\ listeners' = ListenerEffect(listeners, isDragging', isResizing')
    /\ lastOp' = "mouseUp"
    /\ UNCHANGED <<geomFrame, ops, position, size, dragOffset, viewport>>

\* The resize event of window: handleResize of the mount effect
WindowResize(window) ==
    /\ Mounted(state)
    /\ window # viewport
    /\ ops < MaxGestures
    /\ ops' = ops + 1
    /\ viewport' = window
    /\ position' = IF isChatOpen THEN Clamp(position, size, window) ELSE position
    /\ lastOp' = "windowResize"
    /\ UNCHANGED <<geomFrame, size, isDragging, dragOffset, isResizing, resizeDirection,
                   listeners, buttonDown>>

GeomNext ==
    \/ \E offset \in HeaderOffsets : HandleMouseDown(offset)
    \/ \E direction \in {"right", "bottom", "bottom-right"} : HandleResizeMouseDown(direction)
    \/ \E clientX \in PointerXs, clientY \in PointerYs : MouseMove(clientX, clientY)
    \/ MouseUp
    \/ \E window \in WindowSizes : WindowResize(window)
    \/ ~buttonDown /\ OnClose
    \/ ~buttonDown /\ HandleChatClick

InitPanel ==
    /\ state = [initialState EXCEPT !.user = Kamala,
                                    !.chatHistory = StoredHistory,
                                    !.currentChatId = NewChat]
    /\ isChatOpen = TRUE
    /\ inputValue = <<>>
    /\ isStreaming = FALSE
    /\ isWaitingForResponse = FALSE
    /\ showHistory = FALSE
    /\ isLoadingHistory = FALSE
    /\ gen = 1
    /\ requests = {}
    /\ timers = {}
    /\ lastOp = "none"
    /\ ops = 0
    /\ probe = NoProbe
    /\ shadow = <<>>
    /\ currentPage = "dashboard"
    /\ AuxInit

\* The steps of a user who chats, gives feedback, logs out and in again and
\* reopens the panel, with every request of those steps settling either way
PanelNext ==
    \/ \E c \in Credentials : LoginHandleSubmit(c)
    \/ \E r \in requests, o \in LoginOutcomes(Kamala) : LoginResolveOk(r, o)
    \/ HandleLogout
    \/ \E r \in requests : LogoutResolve(r)
    \/ HandleChatClick
    \/ \E r \in requests, h \in HistoryLists : InitializeResolveOk(r, h)
    \/ \E t \in Inputs \cup {<<>>} : SetInputValue(t)
    \/ HandleSendMessage
    \/ \E r \in requests, resp \in Responses, c \in ChatIds : SendResolveOk(r, resp, c)
    \/ \E r \in requests : SendResolveFail(r)
    \/ \E t \in timers : StreamingTick(t)
    \/ \E i \in 0..Len(state.messages), f \in {"liked", "disliked"} : HandleFeedback(i, f)
    \/ \E r \in requests : FeedbackResolveOk(r)
    \/ \E r \in requests : FeedbackResolveFail(r)

SpecPanel == InitPanel /\ [][PanelNext]_vars

\* The opened panel with its drag and resize gestures
SpecGeom == InitPanel /\ [][GeomNext]_vars

----------------------------------------------------------------------------
(* AppContent and the navigation of Layout: login with each role, logout,  *)
(* page selection and a reload of the page in the browser.                 *)

Pages == {"dashboard", "document-management", "document-upload", "users-feedback"}

\* Layout.navigationItems: the ids of the sidebar buttons, in order
navigationItems(user) ==
    (IF user.user_type = "Support" \/ user.user_type = "Tester"
     THEN << "document-management" >> ELSE << >>)
    \o << "users-feedback" >>

\* AppContent.renderPageContent: the element passed to Layout as children
renderPageContent(page) ==
    CASE page = "document-management" -> {"DocumentManagement"}
      [] page = "document-upload" -> {"DocumentUpload"}
      [] page = "users-feedback" -> {"UsersFeedback"}
      [] OTHER -> {"Dashboard"}

\* A content area that also renders the children it was given
LayoutContent_WithChildren(children, page, user) ==
    children
    \cup (IF page = "users-feedback" THEN {"UsersFeedback"} ELSE {})
    \cup (IF page = "dashboard" THEN {"DashboardHint"} ELSE {})

\* The content area of Layout: the components it mounts.  `children` is a
\* prop of Layout that its JSX never uses.
LayoutContent(children, page, user) ==
    (IF page = "document-management"
        /\ (user.user_type = "Support" \/ user.user_type = "Tester")
     THEN {"DocumentManagement"} ELSE {})
    \cup (IF page = "users-feedback" THEN {"UsersFeedback"} ELSE {})
    \cup (IF page = "dashboard" THEN {"DashboardHint"} ELSE {})

\* What AppContent renders: Login, or Layout with its navigation buttons,
\* its content area and the ChatPanel
AppContentRender(s, page) ==
    IF ~s.user.isLoggedIn
    THEN {"Login"}
    ELSE {"Layout", "ChatPanel"}
         \cup { "nav:" \o navigationItems(s.user)[i] : i \in 1..Len(navigationItems(s.user)) }
         \cup LayoutContent(renderPageContent(page), page, s.user)

\* onClick of a navigation button: onPageChange(item.id)
OnPageChange(page) ==
    /\ Mounted(state)
    /\ \E i \in 1..Len(navigationItems(state.user)) : navigationItems(state.user)[i] = page
    /\ currentPage' = page
    /\ lastOp' = "none"
    /\ probe' = Disturb(probe)
    /\ UNCHANGED <<state, panelVars, gen, requests, timers, ops, shadow, accepted, pageVars>>

\* The page is reloaded: the application, its reducer state, every
\* component's local state and every pending promise and timer are gone and
\* AppProvider starts again from initialState.
Reload ==
    /\ state' = initialState
    /\ PanelInitial
    /\ currentPage' = "dashboard"
    /\ requests' = {}
    /\ timers' = {}
    /\ gen' = 0
    /\ lastOp' = "reload"
    /\ probe' = NoProbe
    /\ AuxReset
    /\ UNCHANGED <<ops, shadow>>

SessionNext ==
    \/ \E c \in Credentials : LoginHandleSubmit(c)
    \/ \E r \in requests, o \in AllLoginOutcomes : LoginResolveOk(r, o)
    \/ \E r \in requests, o \in AllLoginOutcomes : LoginResolveFail(r, o)
    \/ HandleLogout
    \/ \E r \in requests : LogoutResolve(r)
    \/ HandleDismissError
    \/ \E p \in Pages : OnPageChange(p)
    \/ Reload

SpecSession == Init /\ [][SessionNext]_vars

----------------------------------------------------------------------------
(* The reducer on its own: ADD_MESSAGE and UPDATE_MESSAGE dispatched with  *)
(* arbitrary payloads.  `shadow` is the list those dispatches should yield,*)
(* kept by Append and by assignment to one element.                        *)

MaxLen == 4

ReducerMessages ==
    { Message("user", Hello, None),
      Message("assistant", <<>>, None),
      Message("assistant", HiThere, None),
      Message("assistant", HiThere, "liked") }

DispatchAddMessage(m) ==
    /\ Len(state.messages) < MaxLen
    /\ state' = appReducer(state, addMessage(m))
    /\ shadow' = Append(shadow, m)
    /\ lastOp' = "ADD_MESSAGE"
    /\ UNCHANGED <<panelVars, gen, requests, timers, ops, probe, currentPage, accepted, pageVars>>

DispatchUpdateMessage(index, m) ==
    /\ state' = appReducer(state, updateMessage(index, m))
    /\ shadow' = IF index < Len(shadow) THEN [shadow EXCEPT ![index + 1] = m] ELSE shadow
    /\ lastOp' = IF index < Len(shadow) THEN "UPDATE_MESSAGE" ELSE "UPDATE_MESSAGE outside"
    /\ UNCHANGED <<panelVars, gen, requests, timers, ops, probe, currentPage, accepted, pageVars>>

ReducerNext ==
    \/ \E m \in ReducerMessages : DispatchAddMessage(m)
    \/ \E i \in 0..Len(state.messages), m \in ReducerMessages : DispatchUpdateMessage(i, m)

SpecReducer == Init /\ [][ReducerNext]_vars

----------------------------------------------------------------------------
(* Properties *)

Messages == state.messages

HasAssistantContent ==
    \E j \in 1..Len(Messages) :
        Messages[j].role = "assistant" /\ Messages[j].content # <<>>

\* A chat request, history fetch, message fetch or feedback request settled
ChatRequestSettled ==
    \E r \in requests : r.kind \in {"send", "boot", "hist", "fb"} /\ r \notin requests'

\* The steps that replace the message list wholesale
Wholesale ==
    \/ HandleNewChat
    \/ \E r \in requests, h \in HistoryLists : InitializeResolveOk(r, h)
    \/ \E r \in requests : HistoryResolveOk(r)
    \/ \E r \in requests : LogoutResolve(r)

C2_AdoptsWhenUnpersisted ==
    [][ \A r \in requests, resp \in Responses, c \in ChatIds :
          SendResolveOk(r, resp, c) =>
            IF r.chat_id = Undefined
            THEN state'.currentChatId = c /\ state'.needsHistoryRefresh
            ELSE /\ state'.currentChatId = state.currentChatId
                 /\ state'.needsHistoryRefresh = state.needsHistoryRefresh ]_vars

\* C3: the LOGOUT action leaves the whole shared state equal to the initial
\* state, and while no user is logged in the settling of a send, history
\* fetch, message fetch or feedback request, or a tick of the typing
\* simulation, does not change the shared state.
C3_LogoutDiscardsAll ==
    [][ /\ (\A r \in requests : LogoutResolve(r) => state' = initialState)
        /\ (~Mounted(state) /\ (ChatRequestSettled \/ \E t \in timers : StreamingTick(t))
              => state' = state) ]_vars

C5_BlankSendIsNoOp ==
    [][ (HandleSendMessage /\ (trim(inputValue) = <<>> \/ state.user = NullUser)) =>
          UNCHANGED <<state, panelVars, requests, timers>> ]_vars

C5_Witness ==
    /\ lastOp = "sendRejected"
    /\ inputValue = <<" ">>

\* C6: an accepted feedback submission sets the tag at once; if the request
\* fails the tag of the message at that index is none afterwards and the
\* error 'Failed to submit feedback' is stored; if it succeeds the message at
\* that index carries the submitted value (liked or disliked).
C6_FeedbackRoundTrip ==
    [][ /\ \A i \in 0..Len(Messages), f \in {"liked", "disliked"} :
             ( /\ HandleFeedback(i, f)
               /\ state.currentChatId # Null
               /\ i < Len(Messages)
               /\ Messages[i + 1].role = "assistant" )
             => state'.messages[i + 1].feedback = f
        /\ \A r \in requests :
             FeedbackResolveFail(r) =>
               /\ state'.error = ErrFeedback
               /\ r.index < Len(Messages) => state'.messages[r.index + 1].feedback = None
        /\ \A r \in requests :
             (FeedbackResolveOk(r) /\ r.index < Len(Messages)) =>
               state'.messages[r.index + 1].feedback = r.feedback_type ]_vars

\* C7: handleFeedback on a user-role message, on an index with no message,
\* or with no active chat, changes no message and no error and issues no
\* feedback request.
C7_FeedbackEarlyReturn ==
    [][ \A i \in 0..Len(Messages), f \in {"liked", "disliked"} :
          ( /\ HandleFeedback(i, f)
            /\ \/ state.currentChatId = Null
               \/ i >= Len(Messages)
               \/ Messages[i + 1].role = "user" )
          => UNCHANGED <<state, requests>> ]_vars

C7_Witness ==
    /\ lastOp = "feedbackRejected"
    /\ state.currentChatId = Null
    /\ HasAssistantContent

\* C8: no feedback request is sent for the sentinel chat 'new_chat'.
C8_NoFeedbackOnSentinelChat ==
    \A r \in requests : r.kind = "fb" => r.chat_id # NewChat

\* C9: after any sequence of ADD_MESSAGE and UPDATE_MESSAGE(index, m) with
\* index within bounds, the message at each index is the latest one written
\* there, every other message is as added, and order and length are kept.
C9_UpdateInPlace ==
    /\ Len(Messages) = Len(shadow)
    /\ \A j \in 1..Len(shadow) : Messages[j] = shadow[j]

C9_Witness ==
    /\ lastOp = "UPDATE_MESSAGE"
    /\ Len(Messages) = MaxLen
    /\ Messages[2] # Messages[3]

\* C10: between wholesale replacements no message is removed or reordered,
\* and the only message whose content changes is the placeholder appended by
\* a send.
C10_AppendOnly ==
    [][ ~Wholesale =>
          /\ Len(state'.messages) >= Len(Messages)
          /\ \A j \in 1..Len(Messages) :
               /\ state'.messages[j].role = Messages[j].role
               /\ state'.messages[j].content # Messages[j].content =>
                    /\ probe.phase \in {"waiting", "streaming"}
                    /\ probe.intact
                    /\ j = probe.index + 1 ]_vars

\* The explicit actions that set the chat id: new chat, bootstrap, history
\* selection and logout
ExplicitChatChange ==
    \/ HandleNewChat
    \/ \E r \in requests, h \in HistoryLists : InitializeResolveOk(r, h)
    \/ \E c \in StoredChatIds : HandleHistoryItemClick(c)
    \/ \E r \in requests : LogoutResolve(r)

\* C11: apart from new chat, bootstrap, history selection and logout, the
\* current chat id changes only from the sentinel 'new_chat' to an id returned
\* by the backend; in particular a send response never replaces a real id.
C11_ChatIdOnlyFromSentinel ==
    [][ (~ExplicitChatChange /\ state'.currentChatId # state.currentChatId) =>
          /\ state.currentChatId = NewChat
          /\ state'.currentChatId \in BackendChatIds ]_vars

\* C12: when authApi.login answers success with a user, that user is stored
\* with isLoggedIn = true and error is null; in every other outcome a
\* non-empty error message is stored and the user is unset afterwards.
C12_Authenticate ==
    [][ \A r \in requests, o \in AllLoginOutcomes :
          /\ LoginResolveOk(r, o) =>
                /\ state'.user = [o.user EXCEPT !.isLoggedIn = TRUE]
                /\ state'.user.isLoggedIn
                /\ state'.error = Null
          /\ LoginResolveFail(r, o) =>
                /\ state'.error \notin {Null, ""}
                /\ state'.user = state.user
                /\ state'.user = NullUser ]_vars

\* C13: when initializeChatSession succeeds the chat history is the fetched
\* list, the current chat id is the sentinel and the message list is empty;
\* when it fails the error 'Failed to initialize chat session' is stored and
\* chat history, current chat id and message list are empty.
C13_BootstrapSession ==
    [][ /\ \A r \in requests, h \in HistoryLists :
             InitializeResolveOk(r, h) =>
               /\ state'.chatHistory = h
               /\ state'.currentChatId = NewChat
               /\ state'.messages = <<>>
        /\ \A r \in requests :
             InitializeResolveFail(r) =>
               /\ state'.error = ErrInit
               /\ state'.chatHistory = <<>>
               /\ state'.currentChatId = Null
               /\ state'.messages = <<>> ]_vars

\* C14: New chat sets the current chat id to the sentinel and the message
\* list to empty and leaves chat history, user, error, loading flag and
\* history-refresh flag unchanged.
C14_NewChatFrame ==
    [][ HandleNewChat =>
          /\ state'.currentChatId = NewChat
          /\ state'.messages = <<>>
          /\ state'.chatHistory = state.chatHistory
          /\ state'.user = state.user
          /\ state'.error = state.error
          /\ state'.isLoading = state.isLoading
          /\ state'.needsHistoryRefresh = state.needsHistoryRefresh ]_vars

C14_Witness ==
    /\ lastOp = "newChat"
    /\ state.chatHistory = StoredHistory
    /\ state.needsHistoryRefresh
    /\ state.error = ErrSend

\* C15: whenever the history-refresh flag is true, the flag is eventually
\* reset to false (the chat-history list having been refetched).
C15_HistoryRefreshed ==
    state.needsHistoryRefresh ~> ~state.needsHistoryRefresh

\* C16: the chat request issued by an accepted send carries the logged-in
\* user's username and the trimmed input text; it carries no chat id exactly
\* when the current chat id at that moment is the sentinel or unset, and the
\* current chat id otherwise.
C16_ChatRequestFields ==
    [][ (HandleSendMessage /\ requests' # requests) =>
          \E r \in requests' \ requests :
             /\ requests' = requests \cup {r}
             /\ r.kind = "send"
             /\ r.username = state.user.username
             /\ r.user_input = trim(inputValue)
             /\ r.user_input # <<>>
             /\ (r.chat_id = Undefined) <=> (state.currentChatId \in {NewChat, Null})
             /\ (r.chat_id # Undefined) => (r.chat_id = state.currentChatId) ]_vars

C16_Witness ==
    \E r \in requests :
        /\ r.kind = "send"
        /\ r.chat_id \in BackendChatIds
        /\ r.user_input = Hello
        /\ state.currentChatId = r.chat_id

\* C17: the document-management view and the Documents navigation button are
\* rendered only while a user with role Support or Tester is logged in.
C17_RoleVisibility ==
    ( \/ "DocumentManagement" \in AppContentRender(state, currentPage)
      \/ "nav:document-management" \in AppContentRender(state, currentPage) )
    => /\ state.user.isLoggedIn
       /\ state.user.user_type \in {"Support", "Tester"}

\* A Client has logged in after a logout (the second mounting of Layout)
\* while the page selected by the previous user is document-management
C17_Witness ==
    /\ state.user = Client1
    /\ gen = 2
    /\ currentPage = "document-management"
    /\ "Layout" \in AppContentRender(state, currentPage)

\* C18: a reload of the page while a user is logged in leaves that user
\* logged in: the login screen is not shown again until logout.
C18_LoginPersists ==
    [][ (Reload /\ state.user.isLoggedIn) =>
          /\ state'.user = state.user
          /\ "Login" \notin AppContentRender(state', currentPage') ]_vars

\* No message fetch of a history selection is pending
NoSelectionInFlight(reqs) == \A q \in reqs : q.kind # "hist"

\* C19: when the last pending history selection has settled (successfully or
\* not) and the current chat id names a stored chat, the message list is the
\* message list of that chat.
C19_SelectionConsistent ==
    [][ \A r \in requests :
          ( /\ HistoryResolveOk(r) \/ HistoryResolveFail(r)
            /\ NoSelectionInFlight(requests')
            /\ state'.currentChatId \in StoredChatIds )
          => state'.messages = StoredMessages(state'.currentChatId) ]_vars

\* C20: when the user has started a new chat or selected a history entry
\* while a send or feedback request was in flight or a typing simulation was
\* running, the later completion of that request or simulation changes no
\* message and does not change the current chat id.
C20_StaleCompletionHarmless ==
    [][ /\ \A r \in requests :
             ( /\ r.kind \in {"send", "fb"} /\ r.displaced
               /\ r \notin requests' )
             => /\ state'.messages = state.messages
                /\ state'.currentChatId = state.currentChatId
        /\ \A t \in timers :
             (t.displaced /\ StreamingTick(t))
             => /\ state'.messages = state.messages
                /\ state'.currentChatId = state.currentChatId ]_vars

\* The sends that are awaiting their response or whose typing simulation runs
SendsInProgress ==
    Cardinality({ r \in requests : r.kind = "send" }) + Cardinality(timers)

\* C21: at most one send is awaiting a response or streaming at any time.
C21_OneSendAtATime ==
    SendsInProgress <= 1

\* C23: whenever the panel is waiting for a response or streaming, both
\* flags are eventually false again (the input and the Send button are
\* enabled), and the settling of a chat request issues no new request.
C23_InteractiveAgain ==
    /\ (isWaitingForResponse \/ isStreaming) ~> (~isWaitingForResponse /\ ~isStreaming)
    /\ [][ \A r \in requests :
              ( \/ SendResolveFail(r)
                \/ \E resp \in Responses, c \in ChatIds : SendResolveOk(r, resp, c) )
              => requests' = requests \ {r} ]_vars

\* A failed send has left the panel ready for the next message
C23_Witness ==
    /\ probe.phase = "failed"
    /\ state.error = ErrSend
    /\ ~isWaitingForResponse /\ ~isStreaming
    /\ isChatOpen

\* The message a feedback submission was made for is still the displayed one
SameMessage(r) ==
    /\ state.user # NullUser /\ state.user.username = r.username
    /\ state.currentChatId = r.chat_id
    /\ r.index < Len(Messages)
    /\ Messages[r.index + 1].role = "assistant"
    /\ Messages[r.index + 1].content = r.assistant_message

\* C24: when feedback submissions for one message overlapped and the backend
\* accepted one of them, the failure of the last one still pending leaves the
\* tag of that message at the accepted value; the tag is none only if the
\* backend accepted neither.
C24_LastAcceptedWins ==
    [][ \A r \in requests :
          ( /\ FeedbackResolveFail(r)
            /\ r.overlaps
            /\ accepted.kind = "fb" /\ accepted.overlaps
            /\ accepted.index = r.index /\ accepted.chat_id = r.chat_id
            /\ SamePending(requests', r.index, r.chat_id) = {}
            /\ SameMessage(accepted) )
          => state'.messages[r.index + 1].feedback = accepted.feedback_type ]_vars

\* C25: while a login request is pending, isLoading is true (the Login
\* button is disabled and no second login can be submitted).
C25_LoadingWhileLoginPending ==
    (\E r \in requests : r.kind = "login") => state.isLoading

\* C22: every typing simulation ends: once an interval is running, a state
\* with no interval running follows; and when an interval is cleared and the
\* message list has not been replaced since the send, the message at the
\* target index holds the full response, for the 8-character chunks of
\* ChatPanel and for the words of Chat alike.
C22_TypingTerminates ==
    /\ (timers # {} \/ chatTimers # {}) ~> (timers = {} /\ chatTimers = {})
    /\ [][ \A t \in timers :
              ( /\ StreamingTick(t)
                /\ timers' = timers \ {t}
                /\ ~t.displaced
                /\ t.messageIndex < Len(Messages) )
              => state'.messages[t.messageIndex + 1].content = t.fullResponse ]_vars
    /\ [][ \A w \in chatTimers :
              ( /\ ChatStreamingTick(w)
                /\ chatTimers' = chatTimers \ {w}
                /\ ~w.replaced
                /\ w.messageIndex < Len(Messages) )
              => state'.messages[w.messageIndex + 1].content = w.fullResponse ]_vars

\* The word-by-word simulation has finished a response with consecutive and
\* trailing spaces
C22_Witness ==
    /\ lastOp = "chatStreamed"
    /\ chatTimers = {}
    /\ ~chatIsStreaming
    /\ Len(Messages) >= 2
    /\ Messages[Len(Messages)].content = <<"a", " ", " ", "b", " ">>

\* C30: when a send of the full-page Chat fails, the message list is the
\* list from before the send followed by the user's message, the error is
\* 'Failed to send message' and isStreaming is false.
C30_ChatSendFailure ==
    [][ \A r \in requests :
          (ChatSendResolveFail(r) /\ ~r.replaced)
          => /\ state'.messages =
                  Append(r.messages, Message("user", r.user_input, None))
             /\ state'.error = ErrSend
             /\ ~chatIsStreaming' ]_vars

\* C26: every id in the delete selection is the id of a displayed document.
C26_SelectionDisplayed ==
    documentsToDelete \subseteq documents

\* C27: handleFileSelect places a file in the form only if its MIME type or
\* its name extension is PDF, TXT or Markdown and its size is less than 10MB;
\* for any other file an error message is stored and the form's file stays
\* as it was.
C27_FileValidation ==
    [][ \A file \in Files :
          ( /\ UploadHandleFileSelect(file) \/ ModalHandleFileSelect(file)
            /\ ~(isValidType(file) /\ file.size < maxSize) )
          => /\ state'.error \notin {Null}
             /\ uploadForm' = uploadForm
             /\ modalUploadForm' = modalUploadForm ]_vars

\* The panel lies within the window
InViewport ==
    /\ 0 <= position.x /\ 0 <= position.y
    /\ position.x + size.x <= viewport.x
    /\ position.y + size.y <= viewport.y

\* C28: after every drag move, resize move and window-resize event the panel
\* lies within the viewport, and after a resize move its width is at least
\* 300 and its height at least 400.
C28_PanelInViewport ==
    [][ /\ ( \/ \E clientX \in PointerXs, clientY \in PointerYs : MouseMove(clientX, clientY)
             \/ \E window \in WindowSizes : WindowResize(window) )
           => InViewport'
        /\ lastOp' = "resizeMove" => (size'.x >= minWidth /\ size'.y >= minHeight) ]_vars

====
